---- MODULE Spec2Model ----
(***************************************************************************)
(* The crawl control loop of scraper/app/crawler.py (WebsiteCrawler), with *)
(* the link extraction of scraper/app/scraper.py and the request handler   *)
(* of scraper/app/main.py.                                                 *)
(*                                                                         *)
(* URLs are Python strings; they are modelled as sequences of one-         *)
(* character strings so that startswith / endswith / split / lower and the *)
(* urllib functions are computed character by character.                   *)
(***************************************************************************)
EXTENDS Integers, Sequences, FiniteSets, TLC

VARIABLES
    base_url,        \* self.base_url
    base_domain,     \* self.base_domain
    max_pages,       \* self.max_pages
    respect_robots,  \* self.respect_robots
    robots_read,     \* what robot_parser.read() met: the environment's answer
    robot_parser,    \* self.robot_parser: its disallow_all / allow_all / last_checked
    visited_urls,    \* self.visited_urls
    queue,           \* self.queue
    results,         \* self.results, each entry by its "url"
    page_count,      \* crawl(): page_count
    current_url,     \* crawl(): current_url
    link_n,          \* how many entries of links the for loop has taken
    exc,             \* the exception in flight inside crawl()'s try block
    fetch_log,       \* the calls received by the Scraper collaborator, in order
    pc,              \* where the job is: loop, fetch, links, sleep, except, done, raised
    response,        \* main.scrape_website's answer to the caller
    normalized_link, \* crawl(): normalized_link, while the for loop runs
    delays,          \* how many calls of time.sleep have returned
    enqueued,        \* every URL put into self.queue, in the order of the puts
    dequeued,        \* every URL popleft() returned, in the order of the pops
    queue_depth,     \* for each entry of self.queue, its distance from the seed
    current_depth,   \* the distance from the seed of current_url
    results_depth,   \* for each entry of self.results, its distance from the seed
    job,             \* which WebsiteCrawler the variables above belong to
    other,           \* the fields and locals of the other WebsiteCrawler
    call             \* a call of normalize_url on its own: arguments and returns

\* the state of one crawl job
jobvars == << base_url, base_domain, max_pages, respect_robots, robots_read,
              robot_parser, visited_urls, queue, results, page_count,
              current_url, link_n, exc, fetch_log, pc, response,
              normalized_link, delays, enqueued, dequeued, queue_depth,
              current_depth, results_depth >>

vars == << jobvars, job, other, call >>

(***************************************************************************)
(* Bounds of the model.                                                    *)
(***************************************************************************)
MaxLinks == 2        \* most <a href> elements on one fetched page
MaxBudget == 2       \* largest max_pages a request asks for

(***************************************************************************)
(* Python str operations.  Helper operators take the intermediate values   *)
(* of the Python code as parameters, one operator per local value.         *)
(***************************************************************************)
UpperCase == <<"A", "B", "C", "D", "E", "F", "G", "H", "I", "J", "K", "L", "M", "N", "O", "P", "Q", "R", "S", "T", "U", "V", "W", "X", "Y", "Z">>
LowerCase == <<"a", "b", "c", "d", "e", "f", "g", "h", "i", "j", "k", "l", "m", "n", "o", "p", "q", "r", "s", "t", "u", "v", "w", "x", "y", "z">>
Digits == <<"0", "1", "2", "3", "4", "5", "6", "7", "8", "9">>

Range(s) == { s[i] : i \in 1..Len(s) }

\* s.startswith(p)
StartsWith(s, p) == Len(s) >= Len(p) /\ SubSeq(s, 1, Len(p)) = p

\* s.endswith(p)
EndsWith(s, p) == Len(s) >= Len(p) /\ SubSeq(s, Len(s) - Len(p) + 1, Len(s)) = p

\* s.find(c) + 1 for a character of cs: 0 when absent
FindAny(s, cs) ==
    IF \E i \in 1..Len(s) : s[i] \in cs
    THEN CHOOSE i \in 1..Len(s) : s[i] \in cs /\ \A j \in 1..(i - 1) : s[j] \notin cs
    ELSE 0

\* s.rfind(c) + 1
RFind(s, c) ==
    IF \E i \in 1..Len(s) : s[i] = c
    THEN CHOOSE i \in 1..Len(s) : s[i] = c /\ \A j \in (i + 1)..Len(s) : s[j] # c
    ELSE 0

\* t in s
Contains(s, t) == \E i \in 0..(Len(s) - Len(t)) : SubSeq(s, i + 1, i + Len(t)) = t

\* c.lower() of each upper-case character
LowerOf == [ c \in Range(UpperCase) |-> LowerCase[CHOOSE i \in 1..26 : UpperCase[i] = c] ]

\* c.lower() of one character
LowerChar(c) == IF c \in DOMAIN LowerOf THEN LowerOf[c] ELSE c

\* s.lower()
Lower(s) == [ i \in 1..Len(s) |-> LowerChar(s[i]) ]

\* s[:d-1], or s when d = 0: the part of s before the separator found at d
CutAt(s, d) == IF d = 0 THEN s ELSE SubSeq(s, 1, d - 1)

\* s.rsplit('#', 1)[0]: cut at the last '#'
SplitFragmentLast(s) == CutAt(s, RFind(s, "#"))

\* s.split('#')[0]
SplitFragment(s) == CutAt(s, FindAny(s, {"#"}))

\* any(s.endswith(p) for p in ps)
EndsWithAny(s, ps) == \E i \in 1..Len(ps) : EndsWith(s, ps[i])

(***************************************************************************)
(* urllib.parse, as crawler.py uses it.                                    *)
(***************************************************************************)
HttpPrefix == <<"h", "t", "t", "p", ":", "/", "/">>
HttpsPrefix == <<"h", "t", "t", "p", "s", ":", "/", "/">>

\* url.startswith(('http://', 'https://'))
IsHttp(url) == StartsWith(url, HttpPrefix) \/ StartsWith(url, HttpsPrefix)

Letters == Range(UpperCase) \cup Range(LowerCase)

SchemeChars == Letters \cup Range(Digits) \cup {"+", "-", "."}

\* urlsplit: i is url.find(':') + 1; the scheme ends there if what precedes
\* is a letter followed by scheme characters
SchemeEndAt(url, i) ==
    IF i > 1 /\ url[1] \in Letters /\ \A k \in 1..(i - 1) : url[k] \in SchemeChars
    THEN i ELSE 0

\* the position of the ':' that ends the scheme, 0 without a scheme
SchemeEnd(url) == SchemeEndAt(url, FindAny(url, {":"}))

\* _splitnetloc: r is what follows "//", d the first of '/', '?', '#' in it
SplitNetlocAt(scheme, rest, r, d) ==
    [ scheme       |-> scheme,
      has_netloc   |-> TRUE,
      netloc       |-> CutAt(r, d),
      rest         |-> IF d = 0 THEN << >> ELSE SubSeq(r, d, Len(r)),
      after_scheme |-> rest ]

\* urlsplit after the scheme: rest is url[i+1:]
SplitRest(scheme, rest) ==
    IF StartsWith(rest, <<"/", "/">>)
    THEN SplitNetlocAt(scheme, rest, SubSeq(rest, 3, Len(rest)),
                       FindAny(SubSeq(rest, 3, Len(rest)), {"/", "?", "#"}))
    ELSE [ scheme       |-> scheme,
           has_netloc   |-> FALSE,
           netloc       |-> << >>,
           rest         |-> rest,
           after_scheme |-> rest ]

\* urlsplit with the scheme ending at e
SplitAt(url, e) == SplitRest(Lower(SubSeq(url, 1, e - 1)), SubSeq(url, e + 1, Len(url)))

\* urlsplit(url): scheme, netloc, and what follows the netloc (path, query
\* and fragment)
Urlsplit(url) == SplitAt(url, SchemeEnd(url))

\* urlparse(url).netloc
Netloc(url) == Urlsplit(url).netloc

\* '[' in netloc without ']', or ']' without '['
BracketMismatch(chars) == ("[" \in chars) # ("]" \in chars)

\* urlsplit raises ValueError("Invalid IPv6 URL") on an unbalanced bracket
UrlparseRaises(url) == BracketMismatch(Range(Netloc(url)))

\* the path of what follows the netloc: up to the first '?' or '#'
PathOf(rest) == CutAt(rest, FindAny(rest, {"?", "#"}))

\* urlparse(url).path
UrlPath(url) == PathOf(Urlsplit(url).rest)

\* urljoin raises when the reference carries a netloc urlsplit rejects
UrljoinRaises(base, url) == Len(base) > 0 /\ Len(url) > 0 /\ UrlparseRaises(url)

\* the fragment of what follows the netloc, its first '#' being at d
FragmentAt(rest, d) == IF d = 0 THEN << >> ELSE SubSeq(rest, d + 1, Len(rest))

\* urlparse(url).fragment
FragmentOf(rest) == FragmentAt(rest, FindAny(rest, {"#"}))

\* the schemes of uses_relative and uses_netloc that occur here
UsesRelative == { << >>, <<"h", "t", "t", "p">>, <<"h", "t", "t", "p", "s">> }

\* urlunsplit: "if netloc or (scheme and scheme in uses_netloc and
\* url[:2] != '//')": '//' + netloc + the path, made to start with '/'
WithNetloc(scheme, netloc, path) ==
    IF netloc # << >> \/ (scheme # << >> /\ scheme \in UsesRelative
                            /\ ~StartsWith(path, <<"/", "/">>))
    THEN <<"/", "/">> \o netloc
             \o (IF path # << >> /\ path[1] # "/" THEN <<"/">> \o path ELSE path)
    ELSE path

\* urlunsplit: "if scheme: url = scheme + ':' + url"
WithScheme(scheme, url) == IF scheme # << >> THEN scheme \o <<":">> \o url ELSE url

\* urlunsplit: "if fragment: url = url + '#' + fragment"
WithFragment(url, fragment) ==
    IF fragment # << >> THEN url \o <<"#">> \o fragment ELSE url

\* urlunparse((scheme, netloc, path, '', '', fragment))
Urlunparse(scheme, netloc, path, fragment) ==
    WithFragment(WithScheme(scheme, WithNetloc(scheme, netloc, path)), fragment)

\* "segments[1:-1] = filter(None, segments[1:-1])" and '/'.join: the empty
\* segments between the first and the last go, so no '/' follows a '/'
RECURSIVE CollapseSlashes(_)
CollapseSlashes(path) ==
    IF Len(path) < 2 THEN path
    ELSE IF path[1] = "/" /\ path[2] = "/" THEN CollapseSlashes(Tail(path))
    ELSE << path[1] >> \o CollapseSlashes(Tail(path))

\* the directory of a base path, its last '/' being at d: base_parts
\* without its last segment; "/" for the empty path
DirAt(path, d) == IF path = << >> THEN <<"/">> ELSE SubSeq(path, 1, d)

BaseDir(path) == DirAt(path, RFind(path, "/"))

\* urljoin of a reference without netloc, by the reference's path
JoinPath(base, b, u, path) ==
    IF path = << >>
    THEN Urlunparse(b.scheme, b.netloc, PathOf(b.rest), FragmentOf(u.rest))
    ELSE IF path[1] = "/"
    THEN Urlunparse(b.scheme, b.netloc, path, FragmentOf(u.rest))
    ELSE Urlunparse(b.scheme, b.netloc,
                    CollapseSlashes(BaseDir(PathOf(b.rest)) \o path),
                    FragmentOf(u.rest))

\* urljoin, b and u being urlparse(base) and urlparse(url)
JoinParts(base, url, b, u) ==
    IF u.scheme # << >> /\ u.scheme # b.scheme THEN url
    ELSE IF b.scheme \notin UsesRelative THEN url
    ELSE IF u.netloc # << >>
    THEN Urlunparse(b.scheme, u.netloc, PathOf(u.rest), FragmentOf(u.rest))
    ELSE JoinPath(base, b, u, PathOf(u.rest))

\* urljoin(base, url), for URLs without '?', ';', '.' or '..' segments
Urljoin(base, url) ==
    IF Len(base) = 0 THEN url
    ELSE IF Len(url) = 0 THEN base
    ELSE JoinParts(base, url, Urlsplit(base), Urlsplit(url))

(***************************************************************************)
(* The input space: the seeds a caller passes, the site behind them, and   *)
(* the href attributes its pages carry.                                    *)
(***************************************************************************)
SeedRoot == <<"h", "t", "t", "p", ":", "/", "/", "x", ".", "c", "o", "m">>
SeedSlash == <<"h", "t", "t", "p", ":", "/", "/", "x", ".", "c", "o", "m", "/">>
SeedPrivate == <<"h", "t", "t", "p", ":", "/", "/", "x", ".", "c", "o", "m", "/", "p">>
SeedNoScheme == <<"x", ".", "c", "o", "m">>
SeedBracket == <<"h", "t", "t", "p", ":", "/", "/", "[">>

\* request.url of a ScrapeRequest
Seeds == { SeedRoot, SeedSlash, SeedPrivate, SeedNoScheme, SeedBracket }

PageA == <<"h", "t", "t", "p", ":", "/", "/", "x", ".", "c", "o", "m", "/", "a">>

\* the URLs the site answers with a document; any other URL makes
\* the Scraper raise (raise_for_status, or requests' MissingSchema)
Pages == { SeedRoot, SeedSlash, SeedPrivate, PageA }

HrefA == <<"h", "t", "t", "p", ":", "/", "/", "x", ".", "c", "o", "m", "/", "a">>
HrefASlash == <<"h", "t", "t", "p", ":", "/", "/", "x", ".", "c", "o", "m", "/", "a", "/">>
HrefRoot == <<"h", "t", "t", "p", ":", "/", "/", "x", ".", "c", "o", "m">>
HrefOther == <<"h", "t", "t", "p", ":", "/", "/", "o", "t", "h", "e", "r", ".", "c", "o", "m", "/", "c">>
HrefPdf == <<"h", "t", "t", "p", ":", "/", "/", "x", ".", "c", "o", "m", "/", "d", ".", "P", "D", "F">>
HrefBracket == <<"h", "t", "t", "p", ":", "/", "/", "[">>
HrefRootRel == <<"/", "b">>
HrefFragment == <<"#", "t">>
HrefMailto == <<"m", "a", "i", "l", "t", "o", ":", "m">>

\* link['href'] of the <a> elements a page may carry
Hrefs == { HrefA, HrefASlash, HrefRoot, HrefOther, HrefPdf, HrefBracket,
           HrefRootRel, HrefFragment, HrefMailto }

\* the site's robots.txt: "User-agent: *" with these Disallow paths
RobotsDisallow == << <<"/", "p">>, <<"/", "a", "/", "b">> >>

\* how robot_parser.read() can end
RobotsReads == { "error", "http_403", "http_404", "parsed" }

(***************************************************************************)
(* scraper.py                                                              *)
(***************************************************************************)
\* Scraper.extract_structured_data: the "url" of one entry of "links"
ExtractLink(href, url) ==
    IF StartsWith(href, <<"/">>)
    THEN IF EndsWith(url, <<"/">>) THEN url \o Tail(href) ELSE url \o href
    ELSE href

(***************************************************************************)
(* crawler.py: WebsiteCrawler                                              *)
(***************************************************************************)
skip_extensions ==
    << <<".", "p", "d", "f">>,
       <<".", "j", "p", "g">>,
       <<".", "j", "p", "e", "g">>,
       <<".", "p", "n", "g">>,
       <<".", "g", "i", "f">>,
       <<".", "c", "s", "s">>,
       <<".", "j", "s">>,
       <<".", "z", "i", "p">>,
       <<".", "t", "a", "r">>,
       <<".", "g", "z">>,
       <<".", "m", "p", "3">>,
       <<".", "m", "p", "4">>,
       <<".", "a", "v", "i">>,
       <<".", "m", "o", "v">> >>

dynamic_tokens ==
    << <<"#">>,
       <<"v", "u", "e">>,
       <<"r", "e", "a", "c", "t">>,
       <<"a", "n", "g", "u", "l", "a", "r">>,
       <<"s", "p", "a">>,
       <<"d", "a", "s", "h", "b", "o", "a", "r", "d">> >>

\* RobotFileParser.__init__: nothing read yet
FreshParser == [ disallow_all |-> FALSE, allow_all |-> FALSE, last_checked |-> FALSE ]

\* RobotFileParser.read(), by what the request for /robots.txt met; an
\* exception other than HTTPError leaves read() and is caught in __init__
ParserAfterRead(read) ==
    CASE read = "http_403" -> [ FreshParser EXCEPT !.disallow_all = TRUE ]
      [] read = "http_404" -> [ FreshParser EXCEPT !.allow_all = TRUE ]
      [] read = "parsed"   -> [ FreshParser EXCEPT !.last_checked = TRUE ]
      [] OTHER             -> FreshParser

\* Entry.allowance(path): no Disallow line of the site's robots.txt applies
Allowance(path) ==
    \A i \in 1..Len(RobotsDisallow) : ~StartsWith(path, RobotsDisallow[i])

\* can_fetch: "if not url: url = '/'"
RobotsPath(path) == IF path = << >> THEN <<"/">> ELSE path

\* RobotFileParser.can_fetch("*", url)
CanFetch(parser, url) ==
    IF parser.disallow_all THEN FALSE
    ELSE IF parser.allow_all THEN TRUE
    ELSE IF ~parser.last_checked THEN FALSE
    ELSE Allowance(RobotsPath(UrlPath(url)))

\* the fields of self that the methods below read
Self ==
    [ base_domain    |-> base_domain,
      respect_robots |-> respect_robots,
      robot_parser   |-> robot_parser,
      visited_urls   |-> visited_urls ]

is_allowed(self, url) ==
    IF ~self.respect_robots THEN TRUE ELSE CanFetch(self.robot_parser, url)

\* is_same_domain without the comparison: every host passes
is_same_domain_any(self, url) == TRUE

is_same_domain(self, url) == Netloc(url) = self.base_domain

\* the trailing slash is left in place
StripSlashNever(url) == url

\* "if url.endswith('/'): url = url[:-1]"
StripSlash(url) ==
    IF EndsWith(url, <<"/">>) THEN SubSeq(url, 1, Len(url) - 1) ELSE url

normalize_url(url, source_url) ==
    StripSlash(SplitFragment(IF ~IsHttp(url) THEN Urljoin(source_url, url) ELSE url))

\* any(url.lower().endswith(ext) for ext in skip_extensions)
HasSkipExtension(url) == EndsWithAny(Lower(url), skip_extensions)

\* should_crawl without "if url in self.visited_urls: return False"
should_crawl_revisits(self, url) ==
    IF ~IsHttp(url) THEN FALSE
    ELSE IF ~is_same_domain(self, url) THEN FALSE
    ELSE IF ~is_allowed(self, url) THEN FALSE
    ELSE IF HasSkipExtension(url) THEN FALSE
    ELSE TRUE

should_crawl(self, url) ==
    IF ~IsHttp(url) THEN FALSE
    ELSE IF url \in self.visited_urls THEN FALSE
    ELSE IF ~is_same_domain(self, url) THEN FALSE
    ELSE IF ~is_allowed(self, url) THEN FALSE
    ELSE IF HasSkipExtension(url) THEN FALSE
    ELSE TRUE

\* should_crawl(url) raises ValueError: urlparse in is_same_domain meets an
\* unbalanced bracket
ShouldCrawlRaises(self, url) ==
    IsHttp(url) /\ url \notin self.visited_urls /\ UrlparseRaises(url)

\* one pass of "for link in links" raises ValueError: in urljoin of
\* normalize_url, or in should_crawl
LinkRaises(self, l, source_url) ==
    IF ~IsHttp(l) /\ UrljoinRaises(source_url, l) THEN TRUE
    ELSE ShouldCrawlRaises(self, normalize_url(l, source_url))

\* self.queue.appendleft in place of append: the queue is a stack
AppendLeftIfCrawl(self, q, link) ==
    IF should_crawl(self, link) THEN << link >> \o q ELSE q

\* "if self.should_crawl(normalized_link): self.queue.append(normalized_link)"
AppendIfCrawl(self, q, link) ==
    IF should_crawl(self, link) THEN Append(q, link) ELSE q

\* is_likely_dynamic
IsLikelyDynamic(url) == \E i \in 1..Len(dynamic_tokens) : Contains(url, dynamic_tokens[i])

\* the while condition without the page budget
LoopCondNoBudget == Len(queue) > 0

\* the while condition of crawl()
LoopCond == Len(queue) > 0 /\ page_count < max_pages

\* self.queue.popleft(): the queue it leaves
PopLeft(q) == Tail(q)

\* the visited check at pop time left out
AlreadyVisitedNever(url, visited) == FALSE

\* "if current_url in self.visited_urls: continue"
AlreadyVisited(url, visited) == url \in visited

\* normalized_link when one pass of the for loop raises: unassigned if
\* urljoin raised in normalize_url, assigned if should_crawl raised
NormalizedBeforeRaise(l, source_url, before) ==
    IF ~IsHttp(l) /\ UrljoinRaises(source_url, l) THEN before
    ELSE normalize_url(l, source_url)

\* no second WebsiteCrawler exists
NoJob == [ pc |-> "none" ]

\* normalize_url is not being called on its own
NoCall == [ step |-> "none" ]

(***************************************************************************)
(* The state after main.scrape_website built the WebsiteCrawler.           *)
(***************************************************************************)
\* WebsiteCrawler.__init__ on one request
JobInit ==
    /\ base_url \in Seeds
    /\ max_pages \in 1..MaxBudget
    /\ respect_robots \in BOOLEAN
    /\ robots_read \in IF respect_robots /\ ~UrlparseRaises(base_url)
                       THEN RobotsReads ELSE { "not_read" }
    /\ robot_parser = ParserAfterRead(robots_read)
    /\ visited_urls = {}
    /\ results = << >>
    /\ page_count = 0
    /\ current_url = << >>
    /\ link_n = 0
    /\ exc = "none"
    /\ fetch_log = << >>
    /\ normalized_link = << >>
    /\ delays = 0
    /\ dequeued = << >>
    /\ current_depth = 0
    /\ results_depth = << >>
    /\ IF UrlparseRaises(base_url)
       THEN \* urlparse(base_url) raises in __init__: HTTPException(500)
            /\ base_domain = << >>
            /\ queue = << >>
            /\ enqueued = << >>
            /\ queue_depth = << >>
            /\ pc = "raised"
            /\ response = "http_500"
       ELSE /\ base_domain = Netloc(base_url)
            /\ queue = << base_url >>
            /\ enqueued = << base_url >>
            /\ queue_depth = << 0 >>
            /\ pc = "loop"
            /\ response = "none"

\* one request: one WebsiteCrawler
Init ==
    /\ JobInit
    /\ job = 1
    /\ other = NoJob
    /\ call = NoCall

(***************************************************************************)
(* crawl(), one action per step of the loop.                               *)
(***************************************************************************)
\* the visited test on self.queue[0] without popleft(): 'continue' leaves
\* the visited head in the queue
SkipKeepsHead ==
    /\ pc = "loop"
    /\ LoopCond
    /\ AlreadyVisited(Head(queue), visited_urls)
    /\ UNCHANGED vars

\* the skip of a visited URL counts as a page
SkipCounts ==
    /\ pc = "loop"
    /\ LoopCond
    /\ AlreadyVisited(Head(queue), visited_urls)
    /\ queue' = PopLeft(queue)
    /\ current_url' = Head(queue)
    /\ page_count' = page_count + 1
    /\ dequeued' = Append(dequeued, Head(queue))
    /\ queue_depth' = PopLeft(queue_depth)
    /\ current_depth' = Head(queue_depth)
    /\ UNCHANGED << job, other, call,
                    base_url, base_domain, max_pages, respect_robots, robots_read,
                    robot_parser, visited_urls, results, link_n,
                    exc, fetch_log, pc, response, normalized_link, delays,
                    enqueued, results_depth >>

\* the popped URL is already visited: continue
Skip ==
    /\ pc = "loop"
    /\ LoopCond
    /\ AlreadyVisited(Head(queue), visited_urls)
    /\ queue' = PopLeft(queue)
    /\ current_url' = Head(queue)
    /\ dequeued' = Append(dequeued, Head(queue))
    /\ queue_depth' = PopLeft(queue_depth)
    /\ current_depth' = Head(queue_depth)
    /\ UNCHANGED << job, other, call,
                    base_url, base_domain, max_pages, respect_robots, robots_read,
                    robot_parser, visited_urls, results, page_count, link_n,
                    exc, fetch_log, pc, response, normalized_link, delays,
                    enqueued, results_depth >>

\* the popped URL is new: mark it visited and call the Scraper
Dispatch ==
    /\ pc = "loop"
    /\ LoopCond
    /\ ~AlreadyVisited(Head(queue), visited_urls)
    /\ queue' = PopLeft(queue)
    /\ current_url' = Head(queue)
    /\ visited_urls' = visited_urls \cup { Head(queue) }
    /\ fetch_log' = Append(fetch_log, [ url |-> Head(queue),
                                        dynamic |-> IsLikelyDynamic(Head(queue)) ])
    /\ pc' = "fetch"
    /\ dequeued' = Append(dequeued, Head(queue))
    /\ queue_depth' = PopLeft(queue_depth)
    /\ current_depth' = Head(queue_depth)
    /\ UNCHANGED << job, other, call,
                    base_url, base_domain, max_pages, respect_robots, robots_read,
                    robot_parser, results, page_count, link_n, exc, response,
                    normalized_link, delays, enqueued, results_depth >>

\* the Scraper's exception leaves crawl() instead of being caught
FetchFailPropagates ==
    /\ pc = "fetch"
    /\ exc' = "FetchError"
    /\ pc' = "raised"
    /\ response' = "http_500"
    /\ UNCHANGED << job, other, call,
                    base_url, base_domain, max_pages, respect_robots, robots_read,
                    robot_parser, visited_urls, queue, results, page_count,
                    current_url, link_n, fetch_log,
                    normalized_link, delays, enqueued, dequeued, queue_depth,
                    current_depth, results_depth >>

\* scrape_static / scrape_dynamic raises
FetchFail ==
    /\ pc = "fetch"
    /\ exc' = "FetchError"
    /\ pc' = "except"
    /\ UNCHANGED << job, other, call,
                    base_url, base_domain, max_pages, respect_robots, robots_read,
                    robot_parser, visited_urls, queue, results, page_count,
                    current_url, link_n, fetch_log, response,
                    normalized_link, delays, enqueued, dequeued, queue_depth,
                    current_depth, results_depth >>

\* the Scraper returns a page: store the result and enter "for link in links"
FetchOk ==
    /\ pc = "fetch"
    /\ current_url \in Pages
    /\ results' = Append(results, current_url)
    /\ results_depth' = Append(results_depth, current_depth)
    /\ link_n' = 0
    /\ pc' = "links"
    /\ UNCHANGED << job, other, call,
                    base_url, base_domain, max_pages, respect_robots, robots_read,
                    robot_parser, visited_urls, queue, page_count, current_url,
                    exc, fetch_log, response, normalized_link, delays, enqueued,
                    dequeued, queue_depth, current_depth >>

\* one pass of the for loop, on the next <a href> of the page: normalize the
\* link and append it to the queue if it should be crawled
ProcessLink(href) ==
    /\ pc = "links"
    /\ link_n < MaxLinks
    /\ ~LinkRaises(Self, ExtractLink(href, current_url), current_url)
    /\ link_n' = link_n + 1
    /\ normalized_link' = normalize_url(ExtractLink(href, current_url), current_url)
    /\ queue' = AppendIfCrawl(Self, queue, normalized_link')
    /\ enqueued' = IF Len(queue') > Len(queue)
                   THEN Append(enqueued, normalized_link')
                   ELSE enqueued
    /\ queue_depth' = IF Len(queue') > Len(queue)
                      THEN Append(queue_depth, current_depth + 1)
                      ELSE queue_depth
    /\ UNCHANGED << job, other, call,
                    base_url, base_domain, max_pages, respect_robots, robots_read,
                    robot_parser, visited_urls, results, page_count, current_url,
                    exc, fetch_log, pc, response, delays, dequeued, current_depth,
                    results_depth >>

\* one pass of the for loop raises ValueError: the rest of the try block,
\* the increment of page_count included, is skipped
LinkError(href) ==
    /\ pc = "links"
    /\ link_n < MaxLinks
    /\ LinkRaises(Self, ExtractLink(href, current_url), current_url)
    /\ link_n' = link_n + 1
    /\ exc' = "ValueError"
    /\ pc' = "except"
    /\ normalized_link' = NormalizedBeforeRaise(ExtractLink(href, current_url), current_url,
                                                normalized_link)
    /\ UNCHANGED << job, other, call,
                    base_url, base_domain, max_pages, respect_robots, robots_read,
                    robot_parser, visited_urls, queue, results, page_count,
                    current_url, fetch_log, response, delays, enqueued, dequeued,
                    queue_depth, current_depth, results_depth >>

\* the for loop is over: count the page and start the delay
EndLinks ==
    /\ pc = "links"
    /\ page_count' = page_count + 1
    /\ pc' = "sleep"
    /\ normalized_link' = << >>
    /\ UNCHANGED << job, other, call,
                    base_url, base_domain, max_pages, respect_robots, robots_read,
                    robot_parser, visited_urls, queue, results, current_url,
                    link_n, exc, fetch_log, response, delays, enqueued, dequeued,
                    queue_depth, current_depth, results_depth >>

\* time.sleep(delay) returns, and back to the while condition
Sleep ==
    /\ pc = "sleep"
    /\ link_n' = 0
    /\ pc' = "loop"
    /\ delays' = delays + 1
    /\ UNCHANGED << job, other, call,
                    base_url, base_domain, max_pages, respect_robots, robots_read,
                    robot_parser, visited_urls, queue, results, page_count,
                    current_url, exc, fetch_log, response, normalized_link,
                    enqueued, dequeued, queue_depth, current_depth, results_depth >>

\* the except clause takes the failed URL out of visited_urls again
HandleErrorForgets ==
    /\ pc = "except"
    /\ exc' = "none"
    /\ link_n' = 0
    /\ pc' = "loop"
    /\ visited_urls' = visited_urls \ { current_url }
    /\ normalized_link' = << >>
    /\ UNCHANGED << job, other, call,
                    base_url, base_domain, max_pages, respect_robots, robots_read,
                    robot_parser, queue, results, page_count,
                    current_url, fetch_log, response, delays, enqueued, dequeued,
                    queue_depth, current_depth, results_depth >>

\* except Exception as e: print, and back to the while condition
HandleError ==
    /\ pc = "except"
    /\ exc' = "none"
    /\ link_n' = 0
    /\ pc' = "loop"
    /\ normalized_link' = << >>
    /\ UNCHANGED << job, other, call,
                    base_url, base_domain, max_pages, respect_robots, robots_read,
                    robot_parser, visited_urls, queue, results, page_count,
                    current_url, fetch_log, response, delays, enqueued, dequeued,
                    queue_depth, current_depth, results_depth >>

\* the while condition is false: crawl() returns self.results and
\* scrape_website answers {"success": True, "data": results}
Finish ==
    /\ pc = "loop"
    /\ ~LoopCond
    /\ pc' = "done"
    /\ response' = "success"
    /\ UNCHANGED << job, other, call,
                    base_url, base_domain, max_pages, respect_robots, robots_read,
                    robot_parser, visited_urls, queue, results, page_count,
                    current_url, link_n, exc, fetch_log,
                    normalized_link, delays, enqueued, dequeued, queue_depth,
                    current_depth, results_depth >>

Next ==
    \/ Skip
    \/ Dispatch
    \/ FetchFail
    \/ FetchOk
    \/ \E href \in Hrefs : ProcessLink(href)
    \/ \E href \in Hrefs : LinkError(href)
    \/ EndLinks
    \/ Sleep
    \/ HandleError
    \/ Finish

Spec == Init /\ [][Next]_vars

\* crawl() runs on one thread that is never suspended for good: the while
\* test is evaluated, a call of the Scraper returns or raises, the for loop
\* over the finite list links ends, time.sleep returns, and the except
\* clause falls through to the while test
FairSpec ==
    /\ Spec
    /\ WF_vars(Skip)
    /\ WF_vars(Dispatch)
    /\ WF_vars(Finish)
    /\ WF_vars(FetchFail \/ FetchOk)
    /\ WF_vars(EndLinks)
    /\ WF_vars(Sleep)
    /\ WF_vars(HandleError)

(***************************************************************************)
(* Two requests at once: main.scrape_website builds one WebsiteCrawler per *)
(* request, and the steps of the two crawl() calls interleave.  The        *)
(* variables hold the job that takes the next step, other holds the job    *)
(* that waits.                                                             *)
(***************************************************************************)
\* the fields of self and the locals of crawl() of the job that runs
Saved ==
    [ base_url        |-> base_url,
      base_domain     |-> base_domain,
      max_pages       |-> max_pages,
      respect_robots  |-> respect_robots,
      robots_read     |-> robots_read,
      robot_parser    |-> robot_parser,
      visited_urls    |-> visited_urls,
      queue           |-> queue,
      results         |-> results,
      page_count      |-> page_count,
      current_url     |-> current_url,
      link_n          |-> link_n,
      exc             |-> exc,
      fetch_log       |-> fetch_log,
      pc              |-> pc,
      response        |-> response,
      normalized_link |-> normalized_link,
      delays          |-> delays,
      enqueued        |-> enqueued,
      dequeued        |-> dequeued,
      queue_depth     |-> queue_depth,
      current_depth   |-> current_depth,
      results_depth   |-> results_depth ]

\* WebsiteCrawler(url, max_pages=pages) as scrape_website builds it:
\* respect_robots keeps its default, False, and robots.txt is not read
NewJob(url, pages) ==
    [ base_url        |-> url,
      base_domain     |-> Netloc(url),
      max_pages       |-> pages,
      respect_robots  |-> FALSE,
      robots_read     |-> "not_read",
      robot_parser    |-> FreshParser,
      visited_urls    |-> {},
      queue           |-> << url >>,
      results         |-> << >>,
      page_count      |-> 0,
      current_url     |-> << >>,
      link_n          |-> 0,
      exc             |-> "none",
      fetch_log       |-> << >>,
      pc              |-> "loop",
      response        |-> "none",
      normalized_link |-> << >>,
      delays          |-> 0,
      enqueued        |-> << url >>,
      dequeued        |-> << >>,
      queue_depth     |-> << 0 >>,
      current_depth   |-> 0,
      results_depth   |-> << >> ]

\* visited_urls as an attribute of the class: one set for both jobs
ResumedVisitedShared(mine, theirs) == mine \cup theirs

\* self.visited_urls is an attribute of the instance: the set a job finds
\* when it takes its next step is its own
ResumedVisited(mine, theirs) == mine

\* the other job takes the next step
Switch ==
    /\ other # NoJob
    /\ job' = 3 - job
    /\ other' = Saved
    /\ base_url' = other.base_url
    /\ base_domain' = other.base_domain
    /\ max_pages' = other.max_pages
    /\ respect_robots' = other.respect_robots
    /\ robots_read' = other.robots_read
    /\ robot_parser' = other.robot_parser
    /\ visited_urls' = ResumedVisited(other.visited_urls, visited_urls)
    /\ queue' = other.queue
    /\ results' = other.results
    /\ page_count' = other.page_count
    /\ current_url' = other.current_url
    /\ link_n' = other.link_n
    /\ exc' = other.exc
    /\ fetch_log' = other.fetch_log
    /\ pc' = other.pc
    /\ response' = other.response
    /\ normalized_link' = other.normalized_link
    /\ delays' = other.delays
    /\ enqueued' = other.enqueued
    /\ dequeued' = other.dequeued
    /\ queue_depth' = other.queue_depth
    /\ current_depth' = other.current_depth
    /\ results_depth' = other.results_depth
    /\ UNCHANGED call

\* two POST /scrape requests for the same site: one for "http://x.com"
\* with the largest budget, one for "http://x.com/" with a budget of one
TwoJobsInit ==
    /\ JobInit
    /\ base_url = SeedRoot
    /\ max_pages = MaxBudget
    /\ ~respect_robots
    /\ job = 1
    /\ other = NewJob(SeedSlash, 1)
    /\ call = NoCall

TwoJobsNext == Next \/ Switch

TwoJobsSpec == TwoJobsInit /\ [][TwoJobsNext]_vars

(***************************************************************************)
(* normalize_url called on its own, and once more on what it returned.     *)
(***************************************************************************)
\* URLs to normalize: each is one of NormStems followed by one of NormTails
NormStems ==
    { <<"h", "t", "t", "p", ":", "/", "/", "x", ".", "c", "o", "m">>,
      <<"h", "t", "t", "p", ":", "/", "/", "x", ".", "c", "o", "m", "/", "a">>,
      <<"h", "t", "t", "p", "s", ":", "/", "/", "x", ".", "c", "o", "m", "/", "a", "/", "b">>,
      <<"h", "t", "t", "p", ":", "/", "/", "x", ".", "c", "o", "m", "/", "a", "/">>,
      <<"h", "t", "t", "p", ":", "/", "/", "x", ".", "c", "o", "m", "/", "a", "#", "s">>,
      <<"/", "b">>,
      <<"b">>,
      << >>,
      <<"m", "a", "i", "l", "t", "o", ":", "m">>,
      <<"/", "/", "[">>,
      <<"/", "/", "y", ".", "c", "o", "m", "/", "c">> }

NormTails ==
    { << >>,
      <<"/">>,
      <<"/", "/">>,
      <<"#">>,
      <<"#", "t">>,
      <<"#", "t", "/">>,
      <<"/", "#", "t">>,
      <<"/", "/", "#", "t">>,
      <<"#", "t", "#", "u">> }

\* source_url: pages of the site, a URL without scheme, the empty string
NormSources ==
    { <<"h", "t", "t", "p", ":", "/", "/", "x", ".", "c", "o", "m", "/", "a">>,
      <<"h", "t", "t", "p", ":", "/", "/", "x", ".", "c", "o", "m", "/", "p", "/">>,
      <<"h", "t", "t", "p", ":", "/", "/", "x", ".", "c", "o", "m">>,
      <<"x", ".", "c", "o", "m">>,
      << >> }

\* no crawl runs: the WebsiteCrawler is only there to be called
NormInit ==
    /\ JobInit
    /\ base_url = SeedBracket
    /\ max_pages = 1
    /\ ~respect_robots
    /\ job = 1
    /\ other = NoJob
    /\ \E u \in NormStems, suffix \in NormTails, source_url \in NormSources :
           call = [ step       |-> "called",
                    u          |-> u,
                    suffix     |-> suffix,
                    url        |-> u \o suffix,
                    source_url |-> source_url,
                    ret        |-> << >>,
                    again      |-> << >> ]

\* normalize_url(url, source_url) raises: urljoin does
NormalizeRaises(url, source_url) == ~IsHttp(url) /\ UrljoinRaises(source_url, url)

\* normalize_url(url, source_url) returns
Normalize ==
    /\ call.step = "called"
    /\ ~NormalizeRaises(call.url, call.source_url)
    /\ call' = [ call EXCEPT !.step = "returned",
                             !.ret = normalize_url(call.url, call.source_url) ]
    /\ UNCHANGED << jobvars, job, other >>

\* normalize_url(url, source_url) raises ValueError
NormalizeError ==
    /\ call.step = "called"
    /\ NormalizeRaises(call.url, call.source_url)
    /\ call' = [ call EXCEPT !.step = "raised" ]
    /\ UNCHANGED << jobvars, job, other >>

\* normalize_url(ret, source_url), ret being what the first call returned
NormalizeAgain ==
    /\ call.step = "returned"
    /\ call' = IF NormalizeRaises(call.ret, call.source_url)
               THEN [ call EXCEPT !.step = "raised_again" ]
               ELSE [ call EXCEPT !.step = "returned_again",
                                  !.again = normalize_url(call.ret, call.source_url) ]
    /\ UNCHANGED << jobvars, job, other >>

NormNext == Normalize \/ NormalizeError \/ NormalizeAgain

NormSpec == NormInit /\ [][NormNext]_vars

(***************************************************************************)
(* Properties.                                                             *)
(***************************************************************************)

\* C1: in every reachable state of a crawl job the number of entries in
\* results is at most max_pages.
C1_ResultsWithinBudget == Len(results) <= max_pages

\* C2: each distinct URL is dispatched to the Scraper at most once, whether
\* the fetch succeeds or fails, and appears in at most one entry of results.
C2_DispatchedAtMostOnce ==
    /\ \A i, j \in 1..Len(fetch_log) : fetch_log[i].url = fetch_log[j].url => i = j
    /\ \A i, j \in 1..Len(results) : results[i] = results[j] => i = j

\* A URL that was queued twice has been fetched and stored once, and its
\* second copy is at the head of the queue, about to be popped.
C2_Witness ==
    /\ pc = "loop"
    /\ LoopCond
    /\ Head(queue) \in visited_urls
    /\ \E i \in 1..Len(results) : results[i] = Head(queue)
    /\ \E i \in 1..Len(fetch_log) : fetch_log[i].url = Head(queue)

\* C3: for every site and every pattern of fetch failures the crawl loop
\* eventually reaches its terminal state and returns.
C3_Terminates == <>(pc \in { "done", "raised" })

\* A job has returned after a page that links back to visited pages was
\* fetched, a fetch failed, and a duplicate was skipped.
C3_Witness ==
    /\ pc = "done"
    /\ Len(results) >= 2
    /\ Len(fetch_log) > Len(results)
    /\ queue = << >>

\* C4: when the fetch of a popped URL fails, the job does not end and no
\* error leaves crawl(): results and page_count are unchanged, the queue is
\* unchanged apart from the removed head, the failed URL stays in
\* visited_urls, and the loop goes on to the next queue entry.
C4_FetchFailureIsSkipped ==
    [][ /\ (pc = "loop" /\ pc' = "fetch") =>
              /\ queue = << current_url' >> \o queue'
              /\ current_url' \in visited_urls'
        /\ (pc = "fetch" /\ exc' = "FetchError") =>
              /\ pc' = "except"
              /\ response' = response
              /\ results' = results
              /\ page_count' = page_count
              /\ queue' = queue
              /\ visited_urls' = visited_urls
              /\ current_url \in visited_urls'
        /\ (pc = "except" /\ exc = "FetchError") =>
              /\ pc' = "loop"
              /\ response' = response
              /\ results' = results
              /\ page_count' = page_count
              /\ queue' = queue
              /\ visited_urls' = visited_urls
              /\ current_url \in visited_urls'
      ]_vars

\* A fetch has failed in the middle of a job: a result is stored and the
\* queue holds further entries.
C4_Witness ==
    /\ pc = "except"
    /\ exc = "FetchError"
    /\ results # << >>
    /\ queue # << >>

\* self with respect_robots disabled
SelfRobotsOff == [ Self EXCEPT !.respect_robots = FALSE ]

\* C5: with respect_robots enabled, if reading the robots declaration
\* failed during construction, the policy allows every URL, so the loop
\* queues exactly the links it would queue with respect_robots disabled.
C5_RobotsFailOpen ==
    (respect_robots /\ robots_read = "error" /\ pc = "links") =>
        \A href \in Hrefs :
            ~LinkRaises(Self, ExtractLink(href, current_url), current_url) =>
                /\ is_allowed(Self, normalize_url(ExtractLink(href, current_url), current_url))
                /\ should_crawl(Self, normalize_url(ExtractLink(href, current_url), current_url))
                     = should_crawl(SelfRobotsOff,
                                    normalize_url(ExtractLink(href, current_url), current_url))

\* C6: every URL with an entry in results, the seed included, satisfies the
\* scope filter: http/https scheme, host equal to base_domain, allowed by
\* the robots policy when robots are enabled, no denylisted extension (that
\* it was not yet visited when dequeued is the guard of the pop itself).
C6_ResultsInScope ==
    \A i \in 1..Len(results) :
        /\ IsHttp(results[i])
        /\ Netloc(results[i]) = base_domain
        /\ is_allowed(Self, results[i])
        /\ ~HasSkipExtension(results[i])

\* C7: the number of fetches dispatched during a job, which is the number
\* of URLs in visited_urls, never exceeds max_pages, also when fetches fail.
C7_FetchesWithinBudget ==
    /\ Len(fetch_log) <= max_pages
    /\ Cardinality(visited_urls) <= max_pages

\* C7, amended: the number of pages counted (fetched and fully processed)
\* never exceeds max_pages, and a fetch is dispatched only while fewer than
\* max_pages pages are counted; every dispatch adds one URL to visited_urls.
\* An iteration that fails is not counted, so the number of dispatched
\* fetches can exceed max_pages.
C7_CountedPagesWithinBudget ==
    /\ page_count <= max_pages
    /\ pc \in { "fetch", "links" } => page_count < max_pages
    /\ Len(fetch_log) = Cardinality(visited_urls)

\* The budget is used up, and more fetches than max_pages were dispatched.
C7_Witness ==
    /\ page_count = max_pages
    /\ Len(fetch_log) > max_pages

\* C8: when the crawl completes, a run with fewer than max_pages results
\* ends with an empty queue, a run that ends with a non-empty queue has
\* exactly max_pages results, and seed http://x.com with max_pages = 1, a
\* fetched seed page and no crawlable link (nothing but the seed was ever
\* queued) ends with one result and an empty queue.
C8_CompletionAndBudget ==
    pc = "done" =>
        /\ Len(results) < max_pages => queue = << >>
        /\ queue # << >> => Len(results) = max_pages
        /\ (base_url = SeedRoot /\ max_pages = 1 /\ results # << >>
               /\ visited_urls = { SeedRoot } /\ queue = << >>)
           => Len(results) = 1

\* a seed that is not an absolute http(s) URL with a host
MalformedSeed ==
    \/ UrlparseRaises(base_url)
    \/ ~IsHttp(base_url)
    \/ Netloc(base_url) = << >>

\* C9: when the seed URL is malformed the job aborts before the first loop
\* iteration: no fetch is dispatched, results is empty, and the caller gets
\* a failed crawl, not a normal (empty) result list.
C9_MalformedSeedAborts ==
    MalformedSeed =>
        /\ fetch_log = << >>
        /\ results = << >>
        /\ pc # "done"
        /\ response # "success"

\* C10: every URL the loop appends to the queue from a page's links passed
\* the scope filter when it was appended: it starts with http:// or
\* https://, its host is base_domain exactly, the robots policy allows it
\* when robots are enabled, it does not end, case-insensitively, in a
\* denylisted extension, and it is not in visited_urls.
C10_PushedLinksInScope ==
    [][ pc = "links" =>
          \A i \in (Len(queue) + 1)..Len(queue') :
              /\ StartsWith(queue'[i], HttpPrefix) \/ StartsWith(queue'[i], HttpsPrefix)
              /\ Urlsplit(queue'[i]).netloc = base_domain
              /\ respect_robots => CanFetch(robot_parser, queue'[i])
              /\ \A k \in 1..Len(skip_extensions) :
                     ~EndsWith(Lower(queue'[i]), skip_extensions[k])
              /\ queue'[i] \notin visited_urls
      ]_vars

\* The for loop has appended a link of the fetched page to the queue while
\* robots are enabled.
C10_Witness ==
    /\ pc = "links"
    /\ link_n > 0
    /\ respect_robots
    /\ queue # << >>
    /\ queue[Len(queue)] = PageA

\* the state of job k, whether it runs or waits
JobState(k) == IF job = k THEN Saved ELSE other

\* C11: two crawl jobs whose steps interleave arbitrarily share no mutable
\* state: a step of one job leaves the other job's queue, visited_urls,
\* results, page_count and robot_parser (and every other field and local)
\* unchanged, and every step a job takes is a step of crawl() on its own
\* state alone, so each job produces what it produces when it runs alone.
C11_JobsIndependent ==
    [][ /\ \A k \in { 1, 2 } :
              (job # k \/ job' # k) => JobState(k)' = JobState(k)
        /\ job' = job => (other' = other /\ [Next]_jobvars)
      ]_vars

\* Both jobs are in the middle of a page's links, each with a stored
\* result, a visited seed and a queued link of its own.
C11_Witness ==
    /\ other # NoJob
    /\ pc = "links"
    /\ other.pc = "links"
    /\ results # << >>
    /\ other.results # << >>
    /\ queue # << >>
    /\ other.queue # << >>
    /\ visited_urls # other.visited_urls

\* C12: exactly one politeness delay is applied for every entry appended
\* to results, and that delay has fully elapsed before the next URL is
\* popped from the queue: whenever the loop is at its while test (or has
\* returned), as many calls of time.sleep have returned as results holds
\* entries, and never more.
C12_OneDelayPerResult ==
    /\ delays <= Len(results)
    /\ pc \in { "loop", "done" } => delays = Len(results)

\* C13: the queue is strictly FIFO, so the traversal is breadth-first from
\* the seed: URLs are popped in the order they were put (what was popped,
\* followed by what is queued, is what was put, in order), and the entries
\* of results are in non-decreasing distance from the seed (seed 0, a URL
\* put while the page at distance d is processed d + 1).
C13_BreadthFirst ==
    /\ enqueued = dequeued \o queue
    /\ Len(queue_depth) = Len(queue)
    /\ Len(results_depth) = Len(results)
    /\ \A i, j \in 1..Len(results_depth) :
           i <= j => results_depth[i] <= results_depth[j]

\* The seed and a page at distance 1 are stored, and the queue holds the
\* same URL twice, found at distance 1 and again at distance 2.
C13_Witness ==
    /\ results_depth = << 0, 1 >>
    /\ Len(dequeued) = 2
    /\ Len(queue) = 2
    /\ queue_depth = << 1, 2 >>

\* how often url occurs in the sequence q
Occurrences(q, url) == Cardinality({ i \in 1..Len(q) : q[i] = url })

\* C14: in every reachable state the queue contains the seed URL at most
\* once: the first pop takes the seed and marks it visited, and from then
\* on a link that normalizes to the seed URL is dropped, never put into the
\* queue again.
C14_SeedQueuedOnce ==
    /\ Occurrences(queue, base_url) <= 1
    /\ Occurrences(enqueued, base_url) <= 1
    /\ dequeued # << >> =>
           /\ dequeued[1] = base_url
           /\ base_url \in visited_urls
           /\ Occurrences(queue, base_url) = 0

\* The for loop has just handled a link that normalizes to the seed URL,
\* after the seed was popped and marked visited.
C14_Witness ==
    /\ pc = "links"
    /\ link_n > 0
    /\ normalized_link = base_url
    /\ base_url \in visited_urls
    /\ dequeued # << >>

\* the URL of the call is u, u + '/' or u + '#' + f, for an absolute
\* http(s) URL u without fragment that does not end in '/'
C15_Case ==
    /\ call.step # "none"
    /\ IsHttp(call.u)
    /\ "#" \notin Range(call.u)
    /\ ~EndsWith(call.u, <<"/">>)
    /\ \/ call.suffix = << >>
       \/ call.suffix = <<"/">>
       \/ call.suffix # << >> /\ call.suffix[1] = "#"

\* C15: for every absolute http(s) URL u that has no fragment and does not
\* end in '/', and every source URL, normalize_url(u + '/'), normalize_url(u)
\* and normalize_url(u + '#' + f) all return u; "http://x.com/a/" and
\* "http://x.com/a" both normalize to "http://x.com/a".
C15_SlashAndFragmentStripped ==
    /\ C15_Case => call.step # "raised"
    /\ (C15_Case /\ call.step # "called") => call.ret = call.u
    /\ (call.step = "returned" /\ call.url \in { HrefA, HrefASlash }) => call.ret = PageA

\* normalize_url has returned "http://x.com/a" for "http://x.com/a#t/",
\* called with a source that is not a page.
C15_Witness ==
    /\ call.step = "returned"
    /\ call.u = PageA
    /\ call.suffix = <<"#", "t", "/">>
    /\ call.source_url = SeedNoScheme
    /\ call.ret = PageA

\* C20: normalize_url is idempotent: for every URL u and source s,
\* normalize(normalize(u, s), s) = normalize(u, s), so a normalized URL
\* never ends in '/' and never contains '#'.
C20_Idempotent ==
    /\ call.step \in { "returned", "returned_again" } =>
           /\ ~EndsWith(call.ret, <<"/">>)
           /\ "#" \notin Range(call.ret)
    /\ call.step # "raised_again"
    /\ call.step = "returned_again" => call.again = call.ret

\* C20, amended: a normalized URL never contains '#'; normalize_url strips
\* one trailing '/' only, so it is idempotent where it leaves no trailing
\* '/': for every URL u and every absolute http(s) source s, if
\* normalize(u, s) does not end in '/', normalize(normalize(u, s), s) =
\* normalize(u, s); a result that ends in '/' is changed by normalizing it
\* again.
C20_IdempotentWithoutSlash ==
    /\ call.step \in { "returned", "returned_again" } => "#" \notin Range(call.ret)
    /\ (call.step \in { "returned_again", "raised_again" }
           /\ IsHttp(call.source_url)
           /\ ~EndsWith(call.ret, <<"/">>))
       => (call.step = "returned_again" /\ call.again = call.ret)
    /\ (call.step = "returned_again" /\ EndsWith(call.ret, <<"/">>))
       => call.again # call.ret

\* normalize_url returned "http://x.com/b" for the relative "b//#t" on the
\* page "http://x.com/a", and returned it again when called on it.
C20_Witness ==
    /\ call.step = "returned_again"
    /\ call.u = <<"b">>
    /\ call.suffix = <<"/", "/", "#", "t">>
    /\ call.source_url = PageA
    /\ call.ret = <<"h", "t", "t", "p", ":", "/", "/", "x", ".", "c", "o", "m", "/", "b">>
    /\ call.again = call.ret

\* C16: a root-relative link "/b" on the fetched page "http://x.com/a"
\* yields the candidate URL "http://x.com/b" by the time the loop
\* scope-filters it, the link being taken as extract_structured_data
\* reports it in the page's list of links.
C16_RootRelativeResolved ==
    (pc = "links" /\ current_url = PageA) =>
        normalize_url(ExtractLink(HrefRootRel, current_url), current_url)
            = <<"h", "t", "t", "p", ":", "/", "/", "x", ".", "c", "o", "m", "/", "b">>

\* C17: across every step of the crawl loop visited_urls only grows and
\* results is append-only: each later value of results has every earlier
\* value as a prefix, also across fetch failures and at termination.
C17_GrowOnly ==
    [][ /\ visited_urls \subseteq visited_urls'
        /\ Len(results') >= Len(results)
        /\ SubSeq(results', 1, Len(results)) = results
      ]_vars

\* crawl() has returned one stored page after two fetches failed: three
\* URLs are visited.
C17_Witness ==
    /\ pc = "done"
    /\ Len(results) = 1
    /\ Cardinality(visited_urls) = 3
    /\ Len(fetch_log) = 3

\* C18: when the URL at the head of the queue is already in visited_urls
\* at pop time, the pop removes only that head entry: no fetch is
\* dispatched, and visited_urls, results and page_count are unchanged (no
\* delay is taken either), so the skip consumes no budget and the loop is
\* back at its while test.
C18_SkipIsFree ==
    [][ (pc = "loop" /\ LoopCond /\ Head(queue) \in visited_urls) =>
            /\ queue' = Tail(queue)
            /\ fetch_log' = fetch_log
            /\ visited_urls' = visited_urls
            /\ results' = results
            /\ page_count' = page_count
            /\ delays' = delays
            /\ pc' = "loop"
      ]_vars

\* A second copy of a visited URL has been popped and skipped: more URLs
\* were popped than fetches dispatched, and the budget is not used up.
C18_Witness ==
    /\ pc = "loop"
    /\ Len(dequeued) > Len(fetch_log)
    /\ current_url \in visited_urls
    /\ Occurrences(dequeued, current_url) = 2
    /\ page_count < max_pages

\* C19: in every reachable state every URL in visited_urls and every URL
\* ever put into the queue, the seed included, is an output of
\* normalize_url, a string with its fragment and one trailing '/' stripped
\* (normalizing it changes nothing); hence a seed given as "http://x.com/"
\* and a later link to "http://x.com" are the same crawl target: the two
\* are never both visited.
C19_OnlyNormalizedUrls ==
    /\ \A url \in visited_urls \cup Range(enqueued) :
           /\ "#" \notin Range(url)
           /\ ~EndsWith(url, <<"/">>)
           /\ normalize_url(url, base_url) = url
    /\ ~({ SeedSlash, SeedRoot } \subseteq visited_urls)

====
